---- MODULE Spec2Model ----
(***************************************************************************)
(* Quest board: the task service (quest_service) and the chat service      *)
(* (chat_service) over the shared store, the RabbitMQ client through which *)
(* the task service publishes its events, the callback of the notification *)
(* service, and the middleware of the API gateway.                         *)
(*                                                                         *)
(* Money is modelled in whole roubles (every amount in the sources is a    *)
(* whole number stored in a Float column), the rating in tenths            *)
(* (5.0 is 50, the step 0.1 is 1).                                         *)
(*                                                                         *)
(* Every request owns one SQLAlchemy session (get_db). The session loads   *)
(* rows into ORM objects when a query runs and writes the changed          *)
(* attributes back, as plain values, when commit() flushes: the model      *)
(* keeps, per request, the values its session loaded (the snapshot) and    *)
(* applies the flush as one atomic step (one database transaction).        *)
(*                                                                         *)
(* A request takes up to three steps, and requests interleave between      *)
(* them: get_current_user (the dependency that loads the caller's row),    *)
(* the handler up to its commit (its SELECTs and checks), and the commit.  *)
(* No query of the service locks a row (no with_for_update) and no UPDATE  *)
(* carries a condition on the old value, so the store serialises only the  *)
(* commits.                                                                *)
(***************************************************************************)
EXTENDS Integers, Sequences, FiniteSets, TLC

\* ---------------------------------------------------------------- bounds
\* requests admitted in one behaviour
MaxRequests == 6
\* create_task requests are admitted while fewer tasks than this exist
MaxTasks == 2
\* request slots: how many requests can be in flight at the same time
MaxReqs == 2
\* websocket connections opened to the chat service in one behaviour
MaxSockets == 3
\* chat messages persisted in one behaviour
MaxMessages == 2
\* frames the websocket handlers read in one behaviour
MaxFrames == 2

\* ------------------------------------------------------------- constants
\* executor_id IS NULL
NoUser == 0
\* ids of the two accounts init_db creates
AdminId == 1
TestUserId == 2
\* the id of an account made by register
RegisteredId == 3
\* rating 5.0 and the step 0.1, in tenths
MaxRating == 50
RatingStep == 1

Users == {AdminId, TestUserId, RegisteredId}
Reqs == 1..MaxReqs
Sockets == 1..MaxSockets
\* websocket close codes (starlette.status); NoCode: the server sent no close
WS_1008_POLICY_VIOLATION == 1008
WS_1011_INTERNAL_ERROR == 1011
NoCode == 0
\* the prices a create_task request may carry (TaskBase.price, gt=0)
Prices == {4000}

\* TaskStatus
OPEN == "open"
IN_PROGRESS == "in_progress"
COMPLETED == "completed"
CANCELLED == "cancelled"
TaskStatus == {OPEN, IN_PROGRESS, COMPLETED, CANCELLED}

\* what a request answers: the detail of its response (the three successes, or
\* the HTTPException raised)
Results == {"created", "taken", "completed", "inactive", "low_balance",
            "task_not_found", "not_open", "own_task", "not_creator",
            "not_in_progress", "no_executor", "no_funds", "failed"}

VARIABLES
    users,  \* table users: id -> [balance, rating, is_active]
    tasks,  \* table tasks: sequence indexed by id of [price, status, creator_id, executor_id]
    req,    \* the requests in flight and the last answer of each slot
    admitted, \* how many requests have been admitted so far
    history, \* per task: who was answered "taken", how often "completed" was
             \* answered, and what the commits of complete_task moved
    active_connections, \* chat service, ConnectionManager: task id -> list of websockets
    ws,            \* chat service: the websocket connections and their handlers
    chat_messages, \* table chat_messages: sequence indexed by id of
                   \* [task_id, sender_id, message]
    http,          \* chat service: the response to the last HTTP request
    rabbitmq,      \* RabbitMQClient of the task service and the broker behind it
    notifications, \* notification service: NotificationHandler.notifications
    gateway        \* API gateway: the last request and what the middleware did

\* what the task service works on, and what only the chat service works on
quest_vars == <<users, tasks, req, admitted, history>>
chat_vars == <<active_connections, ws, chat_messages, http>>
outer_vars == <<rabbitmq, notifications, gateway>>
vars == <<users, tasks, req, admitted, history, active_connections, ws, chat_messages, http,
          rabbitmq, notifications, gateway>>

Min(a, b) == IF a < b THEN a ELSE b

\* a row of users
User(balance, rating, is_active) ==
    [balance |-> balance, rating |-> rating, is_active |-> is_active]

\* a row of tasks
Task(price, status, creator_id, executor_id) ==
    [price |-> price, status |-> status, creator_id |-> creator_id,
     executor_id |-> executor_id]

\* a free request slot
IdleReq ==
    [pc |-> "idle", op |-> "none", user |-> NoUser, task_id |-> 0, price |-> 0,
     cu_balance |-> 0, cu_rating |-> 0, t_price |-> 0, t_executor_id |-> NoUser,
     ex_balance |-> 0, ex_rating |-> 0, result |-> "none"]

\* the slot after the request has answered: free again, the answer kept
Answer(result) == [IdleReq EXCEPT !.result = result]

InFlight(r) == req[r].pc # "idle"

\* nothing answered and nothing moved yet for a task
NoHistory == [takers |-> {}, completions |-> 0, debited |-> 0, credited |-> 0]

\* a websocket nobody has connected yet. open: the peer is connected; acked:
\* the connection payload was sent to it; inbox: the ids of the message payloads
\* sent to it, in order; errors: how many error payloads were sent to it;
\* bc_*: the broadcast its handler is suspended in. History: frames, what the
\* handler made of each frame it has read; bc_stable, the sessions that have
\* been registered and connected since the broadcast began; bc_failed, the
\* sessions a delivery of this broadcast failed for.
FreeSocket ==
    [pc |-> "free", open |-> FALSE, user |-> NoUser, task_id |-> 0,
     close_code |-> NoCode, acked |-> FALSE, inbox |-> <<>>, errors |-> 0,
     frames |-> <<>>,
     bc_msg |-> 0, bc_i |-> 0, bc_stable |-> {}, bc_failed |-> {}]

\* no HTTP request answered yet
NoResponse == [route |-> "none", status |-> 0, body |-> <<>>]

\* the chat service after its start: manager = ConnectionManager(), no
\* connection yet, no message in the table
ChatIdle ==
    /\ active_connections = [t \in {} |-> <<>>]
    /\ ws = [w \in Sockets |-> FreeSocket]
    /\ chat_messages = <<>>
    /\ http = NoResponse

\* the store after create_admin_user and the registrations: admin, test_user,
\* and accounts made by register
\* ------------------------------------------------- broker, notifications
\* a message dict: the keys it has, and the value of task_id
Message(keys, task_id) == [keys |-> keys, task_id |-> task_id]

\* the dicts create_task, take_task and complete_task hand to publish_message
TaskCreatedMessage(task_id) ==
    Message({"task_id", "title", "creator_id", "creator_username", "price",
             "timestamp"}, task_id)
TaskTakenMessage(task_id) ==
    Message({"task_id", "executor_id", "executor_username", "creator_id", "title",
             "timestamp"}, task_id)
TaskCompletedMessage(task_id) ==
    Message({"task_id", "executor_id", "executor_username", "creator_id",
             "creator_username", "price", "timestamp"}, task_id)

\* a publish_message that lets the exception of the broker out
publish_message_Raises(mq, routing_key, message) ==
    IF ~mq.is_enabled THEN [mq |-> mq, returned |-> "True"]
    ELSE IF mq.up
    THEN [mq |-> [mq EXCEPT !.queue = Append(@, [routing_key |-> routing_key,
                                                 message |-> message])],
          returned |-> "True"]
    ELSE [mq |-> mq, returned |-> "raised"]

\* RabbitMQClient.publish_message: a client that is not enabled returns True
\* and sends nothing; an enabled one connects and publishes, and any exception
\* (the broker cannot be reached) is caught: False is returned
publish_message(mq, routing_key, message) ==
    IF ~mq.is_enabled THEN [mq |-> mq, returned |-> "True"]
    ELSE IF mq.up
    THEN [mq |-> [mq EXCEPT !.queue = Append(@, [routing_key |-> routing_key,
                                                 message |-> message])],
          returned |-> "True"]
    ELSE [mq |-> mq, returned |-> "False"]

\* what a handler answers after its commit and its call of publish_message: an
\* exception out of the call would reach the handler's except Exception
AfterPublish(p, result) == Answer(IF p.returned = "raised" THEN "failed" ELSE result)

\* RABBITMQ_CONFIG["enabled"] is False: the client is the stub
RabbitMQOff == [is_enabled |-> FALSE, up |-> FALSE, queue |-> <<>>]

\* no request has come to the gateway
NoRequest == [method |-> "none", path |-> <<>>, auth_header |-> <<>>, did |-> "none",
              status |-> 0, service |-> "none", service_path |-> <<>>]

OuterIdle ==
    /\ rabbitmq = RabbitMQOff
    /\ notifications = <<>>
    /\ gateway = NoRequest

Init ==
    /\ OuterIdle
    /\ users = [u \in Users |->
                  IF u = AdminId THEN User(100000, MaxRating, TRUE)
                  ELSE IF u = TestUserId THEN User(5000, MaxRating, TRUE)
                  ELSE User(0, MaxRating, TRUE)]
    /\ tasks = <<>>
    /\ req = [r \in Reqs |-> IdleReq]
    /\ admitted = 0
    /\ history = <<>>
    /\ ChatIdle

\* init_db.create_sample_tasks: when the table is empty, four tasks of test_user
sample_tasks ==
    << Task(1500, OPEN, TestUserId, NoUser),
       Task(2500, OPEN, TestUserId, NoUser),
       Task(12000, IN_PROGRESS, TestUserId, NoUser),
       Task(15000, OPEN, TestUserId, NoUser) >>

create_sample_tasks ==
    /\ Len(tasks) = 0
    /\ tasks' = sample_tasks
    /\ history' = [t \in DOMAIN sample_tasks |-> NoHistory]
    /\ UNCHANGED <<users, req, admitted, chat_vars, outer_vars>>

\* create_task requests not yet answered
PendingCreates == Cardinality({s \in Reqs : req[s].op = "create"})

\* take_task reads no attribute of the caller's row but its id: the slot of a
\* take_task request does not keep the others
Loaded(op, value) == IF op = "take" THEN 0 ELSE value

\* get_current_user: the dependency that runs before every handler; it loads
\* the caller's row into the request's session. A new request takes the first
\* free slot.
get_current_user(r, op, u, task_id, price) ==
    /\ ~InFlight(r)
    /\ \A s \in Reqs : s < r => InFlight(s)
    /\ admitted < MaxRequests
    /\ admitted' = admitted + 1
    /\ op = "create" => Len(tasks) + PendingCreates < MaxTasks
    /\ req' = [req EXCEPT ![r] =
                 IF ~users[u].is_active
                 THEN Answer("inactive")
                 ELSE [IdleReq EXCEPT !.pc = "authed", !.op = op, !.user = u,
                                      !.task_id = task_id, !.price = price,
                                      !.cu_balance = Loaded(op, users[u].balance),
                                      !.cu_rating = Loaded(op, users[u].rating)]]
    /\ UNCHANGED <<users, tasks, history, chat_vars, outer_vars>>

\* create_task without the balance check of lines 121-127
create_task_NoBalanceCheck(r) ==
    LET q == req[r] IN
    /\ q.pc = "authed" /\ q.op = "create"
    /\ LET p == publish_message(rabbitmq, "task.created",
                              TaskCreatedMessage(Len(tasks) + 1))
       IN /\ tasks' = Append(tasks, Task(q.price, OPEN, q.user, NoUser))
          /\ history' = Append(history, NoHistory)
          /\ rabbitmq' = p.mq
          /\ req' = [req EXCEPT ![r] = AfterPublish(p, "created")]
    /\ UNCHANGED <<users, admitted, chat_vars, notifications, gateway>>

\* create_task with the balance check the wrong way round
create_task_CheckInverted(r) ==
    LET q == req[r] IN
    /\ q.pc = "authed" /\ q.op = "create"
    /\ IF q.cu_balance >= q.price
       THEN /\ req' = [req EXCEPT ![r] = Answer("low_balance")]
            /\ UNCHANGED <<tasks, history, rabbitmq>>
       ELSE LET p == publish_message(rabbitmq, "task.created",
                                     TaskCreatedMessage(Len(tasks) + 1))
            IN /\ tasks' = Append(tasks, Task(q.price, OPEN, q.user, NoUser))
               /\ history' = Append(history, NoHistory)
               /\ rabbitmq' = p.mq
               /\ req' = [req EXCEPT ![r] = AfterPublish(p, "created")]
    /\ UNCHANGED <<users, admitted, chat_vars, notifications, gateway>>

\* create_task: the balance check, then the INSERT and commit
create_task(r) ==
    LET q == req[r] IN
    /\ q.pc = "authed" /\ q.op = "create"
    /\ IF q.cu_balance < q.price
       THEN /\ req' = [req EXCEPT ![r] = Answer("low_balance")]
            /\ UNCHANGED <<tasks, history, rabbitmq>>
       ELSE LET p == publish_message(rabbitmq, "task.created",
                                     TaskCreatedMessage(Len(tasks) + 1))
            IN /\ tasks' = Append(tasks, Task(q.price, OPEN, q.user, NoUser))
               /\ history' = Append(history, NoHistory)
               /\ rabbitmq' = p.mq
               /\ req' = [req EXCEPT ![r] = AfterPublish(p, "created")]
    /\ UNCHANGED <<users, admitted, chat_vars, notifications, gateway>>

\* take_task without the check of lines 280-285 (the caller's own task)
TakeCheck_NoOwnCheck(q) ==
    IF q.task_id \notin DOMAIN tasks THEN "task_not_found"
    ELSE IF tasks[q.task_id].status # OPEN THEN "not_open"
    ELSE "pass"

\* take_task without the check of lines 273-278 (the task's status)
TakeCheck_NoStatusCheck(q) ==
    IF q.task_id \notin DOMAIN tasks THEN "task_not_found"
    ELSE IF tasks[q.task_id].creator_id = q.user THEN "own_task"
    ELSE "pass"

\* take_task up to the commit: the SELECT of the task and the three checks
TakeCheck(q) ==
    IF q.task_id \notin DOMAIN tasks THEN "task_not_found"
    ELSE IF tasks[q.task_id].status # OPEN THEN "not_open"
    ELSE IF tasks[q.task_id].creator_id = q.user THEN "own_task"
    ELSE "pass"

take_task(r) ==
    LET q == req[r] IN
    /\ q.pc = "authed" /\ q.op = "take"
    /\ req' = [req EXCEPT ![r] =
                 IF TakeCheck(q) = "pass" THEN [q EXCEPT !.pc = "dirty"]
                 ELSE Answer(TakeCheck(q))]
    /\ UNCHANGED <<users, tasks, admitted, history, chat_vars, outer_vars>>

\* a take_task that also writes the price
TakeWrite_Reprices(q) ==
    [tasks EXCEPT ![q.task_id].status = IN_PROGRESS,
                  ![q.task_id].executor_id = q.user,
                  ![q.task_id].price = 0]

\* take_task, db.commit(): UPDATE tasks SET status, executor_id WHERE id
TakeWrite(q) ==
    [tasks EXCEPT ![q.task_id].status = IN_PROGRESS,
                  ![q.task_id].executor_id = q.user]

take_task_commit(r) ==
    LET q == req[r] IN
    /\ q.pc = "dirty" /\ q.op = "take"
    /\ tasks' = TakeWrite(q)
    /\ LET p == publish_message(rabbitmq, "task.taken", TaskTakenMessage(q.task_id))
       IN /\ rabbitmq' = p.mq
          /\ req' = [req EXCEPT ![r] = AfterPublish(p, "taken")]
    /\ history' = [history EXCEPT ![q.task_id].takers = @ \cup {q.user}]
    /\ UNCHANGED <<users, admitted, chat_vars, notifications, gateway>>

\* complete_task without the balance check of lines 374-379
LacksFunds_Never(balance, price) == FALSE

\* the balance check of complete_task: on the row get_current_user loaded
LacksFunds(balance, price) == balance < price

\* complete_task without the status check of lines 351-356
CompleteCheck_NoStatus(q) ==
    IF q.task_id \notin DOMAIN tasks THEN "task_not_found"
    ELSE IF tasks[q.task_id].creator_id # q.user THEN "not_creator"
    ELSE IF tasks[q.task_id].executor_id = NoUser THEN "no_executor"
    ELSE IF LacksFunds(q.cu_balance, tasks[q.task_id].price) THEN "no_funds"
    ELSE "pass"

\* complete_task without the creator check of lines 344-349
CompleteCheck_NoCreator(q) ==
    IF q.task_id \notin DOMAIN tasks THEN "task_not_found"
    ELSE IF tasks[q.task_id].status # IN_PROGRESS THEN "not_in_progress"
    ELSE IF tasks[q.task_id].executor_id = NoUser THEN "no_executor"
    ELSE IF LacksFunds(q.cu_balance, tasks[q.task_id].price) THEN "no_funds"
    ELSE "pass"

\* complete_task up to the commit: the SELECT of the task, the checks on it, the
\* SELECT of the executor (a users row always exists) and the balance check
CompleteCheck(q) ==
    IF q.task_id \notin DOMAIN tasks THEN "task_not_found"
    ELSE IF tasks[q.task_id].creator_id # q.user THEN "not_creator"
    ELSE IF tasks[q.task_id].status # IN_PROGRESS THEN "not_in_progress"
    ELSE IF tasks[q.task_id].executor_id = NoUser THEN "no_executor"
    ELSE IF LacksFunds(q.cu_balance, tasks[q.task_id].price) THEN "no_funds"
    ELSE "pass"

\* the objects the session of complete_task holds once the checks have passed.
\* A row the session already holds (the caller's own) is not loaded again.
CompleteLoad(q) ==
    LET t == tasks[q.task_id]
        own == t.executor_id = q.user
    IN [q EXCEPT !.pc = "dirty",
                 !.t_price = t.price,
                 !.t_executor_id = t.executor_id,
                 !.ex_balance = IF own THEN q.cu_balance ELSE users[t.executor_id].balance,
                 !.ex_rating = IF own THEN q.cu_rating ELSE users[t.executor_id].rating]

complete_task(r) ==
    LET q == req[r] IN
    /\ q.pc = "authed" /\ q.op = "complete"
    /\ req' = [req EXCEPT ![r] =
                 IF CompleteCheck(q) = "pass" THEN CompleteLoad(q)
                 ELSE Answer(CompleteCheck(q))]
    /\ UNCHANGED <<users, tasks, admitted, history, chat_vars, outer_vars>>

\* complete_task without the debit of line 386
NewCreatorBalance_NoDebit(q) == q.cu_balance

\* complete_task without the cap of line 390
NewRating_NoCap(q) == q.ex_rating + RatingStep

\* the values complete_task assigns to the loaded objects
NewCreatorBalance(q) == q.cu_balance - q.t_price
NewExecutorBalance(q) ==
    (IF q.t_executor_id = q.user THEN NewCreatorBalance(q) ELSE q.ex_balance) + q.t_price
NewRating(q) == Min(MaxRating, q.ex_rating + RatingStep)

\* complete_task, db.commit(): the flush writes the changed attributes of the
\* two users rows and of the task row, in one transaction
CompleteWriteUsers(q) ==
    [u \in Users |->
        IF u = q.t_executor_id
        THEN [users[u] EXCEPT !.balance = NewExecutorBalance(q),
                              !.rating = IF NewRating(q) # q.ex_rating
                                         THEN NewRating(q) ELSE @]
        ELSE IF u = q.user
        THEN [users[u] EXCEPT !.balance = NewCreatorBalance(q)]
        ELSE users[u]]

\* a commit that closes the task as cancelled
CompleteWriteTasks_Cancels(q) == [tasks EXCEPT ![q.task_id].status = CANCELLED]

CompleteWriteTasks(q) == [tasks EXCEPT ![q.task_id].status = COMPLETED]

complete_task_commit(r) ==
    LET q == req[r] IN
    /\ q.pc = "dirty" /\ q.op = "complete"
    /\ users' = CompleteWriteUsers(q)
    /\ tasks' = CompleteWriteTasks(q)
    /\ LET p == publish_message(rabbitmq, "task.completed",
                              TaskCompletedMessage(q.task_id))
       IN /\ rabbitmq' = p.mq
          /\ req' = [req EXCEPT ![r] = AfterPublish(p, "completed")]
    /\ history' = [history EXCEPT
                     ![q.task_id].completions = @ + 1,
                     ![q.task_id].debited =
                         @ + (users[q.user].balance - users'[q.user].balance),
                     ![q.task_id].credited =
                         @ + (users'[q.t_executor_id].balance
                              - users[q.t_executor_id].balance)]
    /\ UNCHANGED <<admitted, chat_vars, notifications, gateway>>

\* the task ids a request may name: the stored ones and one that is absent
TaskIds == 1..Min(Len(tasks) + 1, MaxTasks + 1)

Request(r) ==
    \/ \E u \in Users, p \in Prices : get_current_user(r, "create", u, 0, p)
    \/ \E u \in Users, t \in TaskIds : get_current_user(r, "take", u, t, 0)
    \/ \E u \in Users, t \in TaskIds : get_current_user(r, "complete", u, t, 0)

Step(r) ==
    \/ create_task(r)
    \/ take_task(r)
    \/ take_task_commit(r)
    \/ complete_task(r)
    \/ complete_task_commit(r)

Next ==
    \/ create_sample_tasks
    \/ \E r \in Reqs : Request(r)
    \/ \E r \in Reqs : Step(r)

Spec == Init /\ [][Next]_vars

\* one request at a time: a request is admitted only when no other is in flight
Quiescent == \A r \in Reqs : ~InFlight(r)

SeqNext ==
    \/ create_sample_tasks
    \/ \E r \in Reqs : Quiescent /\ Request(r)
    \/ \E r \in Reqs : Step(r)

SeqSpec == Init /\ [][SeqNext]_vars

TypeOK ==
    /\ \A u \in Users : users[u].balance \in Int /\ users[u].rating \in 0..MaxRating
    /\ \A t \in DOMAIN tasks : tasks[t].status \in TaskStatus
    /\ DOMAIN history = DOMAIN tasks
    /\ \A r \in Reqs : req[r].result \in Results \cup {"none"}

\* ------------------------------------------------------------ chat service
\* One process, one event loop: a handler runs without interruption from one
\* await to the next. The database calls of the chat service are synchronous;
\* the suspension points are accept, receive_text and every send_text.

\* the credential of a websocket request (query parameter token): missing, one
\* that verify_token refuses, or a valid one whose sub names an account
Token(kind, sub) == [kind |-> kind, sub |-> sub]
Tokens ==
    {Token("missing", NoUser), Token("invalid", NoUser)}
        \cup {Token("valid", u) : u \in Users}

\* get_current_user_from_token: the users row the token names; None when
\* verify_token returns None. The row's is_active is not looked at.
get_current_user_from_token(token) ==
    IF token.kind = "valid" THEN token.sub ELSE NoUser

\* check_task_access that lets everyone in
check_task_access_Anyone(user, task_id) == TRUE

\* check_task_access: the creator and the executor have access
check_task_access(user, task_id) ==
    /\ user # NoUser
    /\ task_id \in DOMAIN tasks
    /\ user \in {tasks[task_id].creator_id, tasks[task_id].executor_id}

\* the list active_connections keeps for a task (none: the empty list)
Connections(ac, task_id) == IF task_id \in DOMAIN ac THEN ac[task_id] ELSE <<>>

InList(list, w) == \E i \in 1..Len(list) : list[i] = w

\* list.remove(w): the first occurrence goes
Remove(list, w) ==
    LET i == CHOOSE k \in 1..Len(list) :
                 list[k] = w /\ \A j \in 1..(k - 1) : list[j] # w
    IN SubSeq(list, 1, i - 1) \o SubSeq(list, i + 1, Len(list))

\* ConnectionManager.connect, after accept: the task's list, made if absent,
\* gets the websocket appended
connect(ac, task_id, w) ==
    [t \in DOMAIN ac \cup {task_id} |->
        IF t = task_id THEN Append(Connections(ac, t), w) ELSE ac[t]]

\* disconnect without the del of line 64
disconnect_KeepsEntry(ac, task_id, w) ==
    IF task_id \notin DOMAIN ac THEN ac
    ELSE [ac EXCEPT ![task_id] = IF InList(@, w) THEN Remove(@, w) ELSE @]

\* ConnectionManager.disconnect: the websocket leaves the task's list; a list
\* left empty is deleted
disconnect(ac, task_id, w) ==
    IF task_id \notin DOMAIN ac THEN ac
    ELSE LET list == IF InList(ac[task_id], w) THEN Remove(ac[task_id], w)
                     ELSE ac[task_id]
         IN IF list = <<>>
            THEN [t \in DOMAIN ac \ {task_id} |-> ac[t]]
            ELSE [ac EXCEPT ![task_id] = list]

\* the for loop of broadcast at list index i: the next index whose connection is
\* not the excluded one, 0 when the list has no such index left
NextTarget(list, i, exclude) ==
    LET S == {j \in i..Len(list) : list[j] # exclude}
    IN IF S = {} THEN 0 ELSE CHOOSE j \in S : \A k \in S : j <= k

\* ConnectionManager.broadcast of message msg by the handler of websocket w, from
\* list index i up to the next await: the loop skips the excluded websocket and
\* calls send_text on the next connection (the payload reaches a connected peer;
\* for a peer that is gone send_text raises, which is logged), or the loop ends
\* and the handler goes back to receive_text. The loop reads the list as it is now.
broadcast(W, w, i, msg) ==
    LET list == Connections(active_connections, W[w].task_id)
        j == NextTarget(list, i, w)
    IN IF j = 0
       THEN [W EXCEPT ![w].pc = "receiving", ![w].bc_msg = 0, ![w].bc_i = 0,
                      ![w].bc_stable = {}, ![w].bc_failed = {}]
       ELSE [W EXCEPT ![w].pc = "sending", ![w].bc_msg = msg, ![w].bc_i = j + 1,
                      ![w].bc_failed = IF W[list[j]].open THEN @ ELSE @ \cup {list[j]},
                      ![list[j]].inbox = IF W[list[j]].open THEN Append(@, msg) ELSE @]

\* websocket_endpoint up to its first await: the token, the user, the task and
\* the access check; a failed check closes with 1008 and returns, otherwise the
\* handler waits in manager.connect for accept. A new connection is the next
\* websocket not yet used.
websocket_endpoint(w, token, task_id) ==
    /\ ws[w].pc = "free"
    /\ \A x \in Sockets : x < w => ws[x].pc # "free"
    /\ LET current_user == get_current_user_from_token(token)
           refused == \/ token.kind = "missing"
                      \/ current_user = NoUser
                      \/ task_id \notin DOMAIN tasks
                      \/ ~check_task_access(current_user, task_id)
       IN ws' = [ws EXCEPT ![w] =
                    IF refused
                    THEN [FreeSocket EXCEPT !.pc = "closed", !.user = current_user,
                                            !.task_id = task_id,
                                            !.close_code = WS_1008_POLICY_VIOLATION]
                    ELSE [FreeSocket EXCEPT !.pc = "accepting", !.open = TRUE,
                                            !.user = current_user,
                                            !.task_id = task_id]]
    /\ UNCHANGED <<active_connections, chat_messages, http, quest_vars, outer_vars>>

\* a websocket_endpoint that announces the newcomer: the connection payload goes
\* to every websocket of the task's list (as message id 0 for the others)
websocket_accept_Announce(w) ==
    /\ ws[w].pc = "accepting"
    /\ active_connections' = connect(active_connections, ws[w].task_id, w)
    /\ ws' = [c \in Sockets |->
                 IF c = w
                 THEN IF ws[w].open
                      THEN [ws[w] EXCEPT !.pc = "receiving", !.acked = TRUE]
                      ELSE [ws[w] EXCEPT !.pc = "ended",
                                         !.close_code = WS_1011_INTERNAL_ERROR]
                 ELSE IF /\ ws[w].open /\ ws[c].open
                         /\ InList(Connections(active_connections, ws[w].task_id), c)
                      THEN [ws[c] EXCEPT !.inbox = Append(@, 0)]
                      ELSE ws[c]]
    /\ UNCHANGED <<chat_messages, http, quest_vars, outer_vars>>

\* accept has returned: manager.connect appends the websocket, then the handler
\* sends the connection payload. If the peer has gone by now that send_text
\* raises: the outer except closes with 1011 and the handler returns.
websocket_accept(w) ==
    /\ ws[w].pc = "accepting"
    /\ active_connections' = connect(active_connections, ws[w].task_id, w)
    /\ ws' = [ws EXCEPT ![w] =
                 IF ws[w].open
                 THEN [@ EXCEPT !.pc = "receiving", !.acked = TRUE]
                 ELSE [@ EXCEPT !.pc = "ended", !.close_code = WS_1011_INTERNAL_ERROR]]
    /\ UNCHANGED <<chat_messages, http, quest_vars, outer_vars>>

\* accept itself raises, the peer having gone: the outer except, nothing appended
websocket_accept_error(w) ==
    /\ ws[w].pc = "accepting" /\ ~ws[w].open
    /\ ws' = [ws EXCEPT ![w].pc = "ended", ![w].close_code = WS_1011_INTERNAL_ERROR]
    /\ UNCHANGED <<active_connections, chat_messages, http, quest_vars, outer_vars>>

\* the peer of websocket w closes the connection, or the transport drops it
client_close(w) ==
    /\ ws[w].open
    /\ ws' = [x \in Sockets |->
                 IF x = w THEN [ws[x] EXCEPT !.open = FALSE]
                 ELSE [ws[x] EXCEPT !.bc_stable = @ \ {w}]]
    /\ UNCHANGED <<active_connections, chat_messages, http, quest_vars, outer_vars>>

\* a text frame, by what json.loads and .get("message", "") make of it:
\* "not_json" is no JSON text, "not_object" a JSON value that is no object,
\* "message_not_text" an object whose message is no string, "no_message" an
\* object without the key, "text" an object whose message is the string message
\* (its characters)
Frame(kind, message) == [kind |-> kind, message |-> message]

Texts == {<<>>, <<" ">>, <<"h">>, <<" ", "h", " ">>}

Frames ==
    {Frame("not_json", <<>>), Frame("not_object", <<>>),
     Frame("message_not_text", <<>>), Frame("no_message", <<>>)}
        \cup {Frame("text", m) : m \in Texts}

IsSpace(c) == c \in {" ", "\t", "\n"}

\* str.strip(): the text without its leading and trailing whitespace
strip(text) ==
    LET keep == {i \in 1..Len(text) : ~IsSpace(text[i])}
    IN IF keep = {} THEN <<>>
       ELSE SubSeq(text, CHOOSE i \in keep : \A k \in keep : i <= k,
                         CHOOSE i \in keep : \A k \in keep : k <= i)

\* the message as it is without strip()
message_text_NoStrip(data) == data.message

\* message_data.get("message", "").strip()
message_text(data) == strip(data.message)

\* db.add that leaves out a message the table already holds
db_add_Once(messages, chat_message) ==
    IF \E i \in 1..Len(messages) : messages[i] = chat_message THEN messages
    ELSE Append(messages, chat_message)

\* db.add, db.commit: a new row, its id the next one
db_add(messages, chat_message) == Append(messages, chat_message)

\* the frames the handlers have read so far
FramesRead == {f \in Sockets \X (1..MaxFrames) : f[2] <= Len(ws[f[1]].frames)}

\* receive_text returns frame data. A frame that is no JSON gets the error
\* payload sent back; any other exception of the try block (the .get of a value
\* that is no object, the .strip of a message that is no string) is logged; an
\* empty message_text is skipped; otherwise the handler stores the message
\* (commit) and broadcasts it, excluding its own websocket
receive_text(w, data) ==
    /\ ws[w].pc = "receiving" /\ ws[w].open
    /\ Cardinality(FramesRead) < MaxFrames
    /\ LET read == [ws EXCEPT ![w].frames = Append(@, data)]
           list == Connections(active_connections, ws[w].task_id)
           stable == {c \in Sockets : c # w /\ InList(list, c) /\ ws[c].open}
       IN IF data.kind = "not_json"
          THEN /\ ws' = [read EXCEPT ![w].errors = @ + 1]
               /\ chat_messages' = chat_messages
          ELSE IF data.kind \in {"not_object", "message_not_text"}
          THEN /\ ws' = read
               /\ chat_messages' = chat_messages
          ELSE IF message_text(data) = <<>>
          THEN /\ ws' = read
               /\ chat_messages' = chat_messages
          ELSE /\ Len(chat_messages) < MaxMessages
               /\ chat_messages' =
                      db_add(chat_messages,
                             [task_id |-> ws[w].task_id, sender_id |-> ws[w].user,
                              message |-> message_text(data)])
               /\ ws' = broadcast([read EXCEPT ![w].bc_stable = stable], w, 1,
                                  Len(chat_messages) + 1)
    /\ UNCHANGED <<active_connections, http, quest_vars, outer_vars>>

\* the send_text the broadcast of w waited in has returned or raised: the loop
\* goes on
broadcast_resume(w) ==
    /\ ws[w].pc = "sending"
    /\ ws' = broadcast(ws, w, ws[w].bc_i, ws[w].bc_msg)
    /\ UNCHANGED <<active_connections, chat_messages, http, quest_vars, outer_vars>>

\* receive_text raises WebSocketDisconnect: manager.disconnect, the handler returns
WebSocketDisconnect(w) ==
    /\ ws[w].pc = "receiving" /\ ~ws[w].open
    /\ active_connections' = disconnect(active_connections, ws[w].task_id, w)
    /\ ws' = [ws EXCEPT ![w].pc = "ended"]
    /\ UNCHANGED <<chat_messages, http, quest_vars, outer_vars>>

HTTP_200_OK == 200
HTTP_201_CREATED == 201
HTTP_401_UNAUTHORIZED == 401
HTTP_403_FORBIDDEN == 403
HTTP_404_NOT_FOUND == 404

Response(route, status, body) == [route |-> route, status |-> status, body |-> body]

\* the parameter authorization of the two HTTP routes, Depends(lambda: None):
\* None, whatever credential the request carries
authorization(token) == Token("missing", NoUser)

\* the checks both HTTP routes begin with: the status they raise, 0 when all pass
http_checks(token, task_id) ==
    LET auth == authorization(token)
        current_user == get_current_user_from_token(auth)
    IN IF auth.kind = "missing" THEN HTTP_401_UNAUTHORIZED
       ELSE IF current_user = NoUser THEN HTTP_401_UNAUTHORIZED
       ELSE IF task_id \notin DOMAIN tasks THEN HTTP_404_NOT_FOUND
       ELSE IF ~check_task_access(current_user, task_id) THEN HTTP_403_FORBIDDEN
       ELSE 0

\* POST /messages: after the checks the message is stored and sent to every
\* connection of the task; the response is the stored row
create_message(token, task_id, message) ==
    LET current_user == get_current_user_from_token(authorization(token))
        list == Connections(active_connections, task_id)
    IN /\ IF http_checks(token, task_id) # 0
          THEN /\ http' = Response("create_message", http_checks(token, task_id), <<>>)
               /\ UNCHANGED <<chat_messages, ws>>
          ELSE /\ Len(chat_messages) < MaxMessages
               /\ chat_messages' =
                      db_add(chat_messages,
                             [task_id |-> task_id, sender_id |-> current_user,
                              message |-> message])
               /\ ws' = [c \in Sockets |->
                            IF InList(list, c) /\ ws[c].open
                            THEN [ws[c] EXCEPT !.inbox = Append(@, Len(chat_messages) + 1)]
                            ELSE ws[c]]
               /\ http' = Response("create_message", HTTP_201_CREATED,
                                   <<Len(chat_messages) + 1>>)
       /\ UNCHANGED <<active_connections, quest_vars, outer_vars>>

Reverse(list) == [i \in 1..Len(list) |-> list[Len(list) + 1 - i]]

\* the ids 1..n of the messages of a task, oldest first (created_at is the time
\* of the insert, the ids follow it)
TaskMessages(task_id, n) ==
    SelectSeq([i \in 1..n |-> i], LAMBDA i : chat_messages[i].task_id = task_id)

\* the query of get_task_messages and the reverse() after it: the task's
\* messages newest first, without the first skip of them, at most limit of
\* them, and that page turned round
messages_query(task_id, skip, limit) ==
    LET desc == Reverse(TaskMessages(task_id, Len(chat_messages)))
    IN Reverse(SubSeq(desc, skip + 1, Min(Len(desc), skip + limit)))

\* GET /tasks/{task_id}/messages
get_task_messages(token, task_id, skip, limit) ==
    /\ http' = IF http_checks(token, task_id) # 0
               THEN Response("get_task_messages", http_checks(token, task_id), <<>>)
               ELSE Response("get_task_messages", HTTP_200_OK,
                             messages_query(task_id, skip, limit))
    /\ UNCHANGED <<active_connections, ws, chat_messages, quest_vars, outer_vars>>

\* the store the chat service runs on: test_user has created task 1 and admin
\* has taken it, admin has created task 2; admin's account may have been
\* deactivated since (users.is_active)
ChatStore ==
    /\ \E active \in BOOLEAN :
          users = [u \in Users |->
                      IF u = AdminId THEN User(100000, MaxRating, active)
                      ELSE IF u = TestUserId THEN User(5000, MaxRating, TRUE)
                      ELSE User(0, MaxRating, TRUE)]
    /\ tasks = << Task(4000, IN_PROGRESS, TestUserId, AdminId),
                  Task(4000, OPEN, AdminId, NoUser) >>
    /\ req = [r \in Reqs |-> IF r = 1 THEN Answer("created") ELSE IdleReq]
    /\ admitted = 3
    /\ history = << [NoHistory EXCEPT !.takers = {AdminId}], NoHistory >>

ChatInit == ChatStore /\ ChatIdle /\ OuterIdle

\* the task ids a websocket request may name: the stored ones and one that is absent
ChatTaskIds == 1..(Len(tasks) + 1)

\* a frame with a message
ChatFrames == {Frame("text", <<"h">>)}

ChatNext ==
    \/ \E w \in Sockets, token \in Tokens, t \in ChatTaskIds :
          websocket_endpoint(w, token, t)
    \/ \E w \in Sockets : websocket_accept(w)
    \/ \E w \in Sockets : websocket_accept_error(w)
    \/ \E w \in Sockets : client_close(w)
    \/ \E w \in Sockets, data \in ChatFrames : receive_text(w, data)
    \/ \E w \in Sockets : broadcast_resume(w)
    \/ \E w \in Sockets : WebSocketDisconnect(w)

ChatSpec == ChatInit /\ [][ChatNext]_vars

\* the chat service after a first websocket request that came without a token
\* and was refused
OneRefused ==
    /\ active_connections = [t \in {} |-> <<>>]
    /\ ws = [w \in Sockets |->
                IF w = 1
                THEN [FreeSocket EXCEPT !.pc = "closed", !.task_id = 1,
                                        !.close_code = WS_1008_POLICY_VIOLATION]
                ELSE FreeSocket]
    /\ chat_messages = <<>>
    /\ http = NoResponse

FrameInit == ChatStore /\ OneRefused /\ OuterIdle

\* websocket clients that send any frame
FrameNext ==
    \/ \E w \in Sockets, token \in Tokens, t \in ChatTaskIds :
          websocket_endpoint(w, token, t)
    \/ \E w \in Sockets : websocket_accept(w)
    \/ \E w \in Sockets : websocket_accept_error(w)
    \/ \E w \in Sockets : client_close(w)
    \/ \E w \in Sockets, data \in Frames : receive_text(w, data)
    \/ \E w \in Sockets : broadcast_resume(w)
    \/ \E w \in Sockets : WebSocketDisconnect(w)

FrameSpec == FrameInit /\ [][FrameNext]_vars

\* the window a history request may ask for
Skips == 0..1
Limits == 1..MaxMessages

\* websocket clients that send messages, and the clients of the HTTP routes
HttpNext ==
    \/ \E w \in Sockets, token \in Tokens, t \in ChatTaskIds :
          websocket_endpoint(w, token, t)
    \/ \E w \in Sockets : websocket_accept(w)
    \/ \E w \in Sockets : websocket_accept_error(w)
    \/ \E w \in Sockets : client_close(w)
    \/ \E w \in Sockets, data \in ChatFrames : receive_text(w, data)
    \/ \E w \in Sockets : broadcast_resume(w)
    \/ \E w \in Sockets : WebSocketDisconnect(w)
    \/ \E token \in Tokens, t \in ChatTaskIds, m \in Texts : create_message(token, t, m)
    \/ \E token \in Tokens, t \in ChatTaskIds, skip \in Skips, limit \in Limits :
          get_task_messages(token, t, skip, limit)

HttpSpec == FrameInit /\ [][HttpNext]_vars

\* both services at work on task 1, which test_user has created and nobody has
\* taken yet: two more requests may come to the task service
TakeoverInit ==
    /\ users = [u \in Users |->
                   IF u = AdminId THEN User(100000, MaxRating, TRUE)
                   ELSE IF u = TestUserId THEN User(5000, MaxRating, TRUE)
                   ELSE User(0, MaxRating, TRUE)]
    /\ tasks = << Task(4000, OPEN, TestUserId, NoUser) >>
    /\ req = [r \in Reqs |-> IF r = 1 THEN Answer("created") ELSE IdleReq]
    /\ admitted = MaxRequests - 2
    /\ history = << NoHistory >>
    /\ OneRefused
    /\ OuterIdle

\* users take task 1 while its participants chat
TakeoverNext ==
    \/ \E r \in Reqs, u \in Users : get_current_user(r, "take", u, 1, 0)
    \/ \E r \in Reqs : take_task(r)
    \/ \E r \in Reqs : take_task_commit(r)
    \/ \E w \in Sockets, u \in Users : websocket_endpoint(w, Token("valid", u), 1)
    \/ \E w \in Sockets : websocket_accept(w)
    \/ \E w \in Sockets : websocket_accept_error(w)
    \/ \E w \in Sockets : client_close(w)
    \/ \E w \in Sockets, data \in ChatFrames : receive_text(w, data)
    \/ \E w \in Sockets : broadcast_resume(w)
    \/ \E w \in Sockets : WebSocketDisconnect(w)

TakeoverSpec == TakeoverInit /\ [][TakeoverNext]_vars

\* --------------------------------------------- task service with a broker
\* NotificationHandler.handle_task_created, handle_task_taken and
\* handle_task_completed: one notification of the handler's type is appended
Notification(type, message) ==
    [type |-> type, task_id |-> message.task_id, data |-> message]
handle_task_created(list, message) == Append(list, Notification("task_created", message))
handle_task_taken(list, message) == Append(list, Notification("task_taken", message))
handle_task_completed(list, message) ==
    Append(list, Notification("task_completed", message))

\* rabbitmq_callback: the handler is chosen by the keys the message has
rabbitmq_callback(list, message) ==
    IF {"creator_username", "price"} \subseteq message.keys
    THEN handle_task_created(list, message)
    ELSE IF {"executor_username", "creator_id"} \subseteq message.keys
    THEN handle_task_taken(list, message)
    ELSE IF {"price", "executor_username"} \subseteq message.keys
    THEN handle_task_completed(list, message)
    ELSE list

\* on_message of consume_messages: the next message of the queue goes to the
\* callback and is acknowledged
on_message ==
    /\ rabbitmq.queue # <<>>
    /\ notifications' = rabbitmq_callback(notifications, Head(rabbitmq.queue).message)
    /\ rabbitmq' = [rabbitmq EXCEPT !.queue = Tail(@)]
    /\ UNCHANGED <<quest_vars, chat_vars, gateway>>

\* the broker goes down, or comes back
broker_turns ==
    /\ rabbitmq.is_enabled
    /\ rabbitmq' = [rabbitmq EXCEPT !.up = ~@]
    /\ UNCHANGED <<quest_vars, chat_vars, notifications, gateway>>

\* the task service with RABBITMQ_CONFIG["enabled"] set, after a first request
\* that named no task; three more requests may come
PublishInit ==
    /\ users = [u \in Users |->
                   IF u = AdminId THEN User(100000, MaxRating, TRUE)
                   ELSE IF u = TestUserId THEN User(5000, MaxRating, TRUE)
                   ELSE User(0, MaxRating, TRUE)]
    /\ tasks = <<>>
    /\ req = [r \in Reqs |-> IF r = 1 THEN Answer("task_not_found") ELSE IdleReq]
    /\ admitted = MaxRequests - 3
    /\ history = <<>>
    /\ ChatIdle
    /\ \E up \in BOOLEAN : rabbitmq = [is_enabled |-> TRUE, up |-> up, queue |-> <<>>]
    /\ notifications = <<>>
    /\ gateway = NoRequest

PublishNext ==
    \/ Next
    \/ on_message
    \/ broker_turns

PublishSpec == PublishInit /\ [][PublishNext]_vars

\* ------------------------------------------- task service: the HTTP answers
HTTP_400_BAD_REQUEST == 400

\* what the client gets: the status code and, for an HTTPException, its detail.
\* A detail stands for one string of the source, in English here.
HTTPAnswer(status_code, detail) == [status_code |-> status_code, detail |-> detail]

\* a service that words the self-claim as it words the wrong state
quest_answer_OneDetail(op, result) ==
    IF result \in {"not_open", "own_task"}
    THEN HTTPAnswer(HTTP_400_BAD_REQUEST, "task is not available for taking")
    ELSE IF result = "task_not_found"
    THEN HTTPAnswer(HTTP_404_NOT_FOUND, "task not found")
    ELSE IF result = "not_creator"
    THEN HTTPAnswer(HTTP_403_FORBIDDEN, "only the creator of the task can complete it")
    ELSE IF result = "no_funds"
    THEN HTTPAnswer(HTTP_400_BAD_REQUEST, "not enough funds for the payment")
    ELSE IF result \in {"taken", "completed"}
    THEN HTTPAnswer(HTTP_200_OK, "none")
    ELSE HTTPAnswer(HTTP_400_BAD_REQUEST, "other")

\* the answer of take_task and complete_task for each way the handler ends
quest_answer(op, result) ==
    IF result = "taken" THEN HTTPAnswer(HTTP_200_OK, "none")
    ELSE IF result = "completed" THEN HTTPAnswer(HTTP_200_OK, "none")
    ELSE IF result = "task_not_found"
    THEN HTTPAnswer(HTTP_404_NOT_FOUND, "task not found")
    ELSE IF result = "not_open"
    THEN HTTPAnswer(HTTP_400_BAD_REQUEST, "task is not available for taking")
    ELSE IF result = "own_task"
    THEN HTTPAnswer(HTTP_400_BAD_REQUEST, "cannot take your own task")
    ELSE IF result = "not_creator"
    THEN HTTPAnswer(HTTP_403_FORBIDDEN, "only the creator of the task can complete it")
    ELSE IF result = "not_in_progress"
    THEN HTTPAnswer(HTTP_400_BAD_REQUEST, "task is not in progress")
    ELSE IF result = "no_executor"
    THEN HTTPAnswer(HTTP_400_BAD_REQUEST, "task has no executor")
    ELSE IF result = "no_funds"
    THEN HTTPAnswer(HTTP_400_BAD_REQUEST, "not enough funds for the payment")
    ELSE IF result = "inactive"
    THEN HTTPAnswer(HTTP_400_BAD_REQUEST, "user is inactive")
    ELSE IF op = "take"
    THEN HTTPAnswer(HTTP_400_BAD_REQUEST, "could not take the task")
    ELSE HTTPAnswer(HTTP_400_BAD_REQUEST, "could not complete the task")

\* ------------------------------------------------------------ API gateway
\* A path and a header are strings, kept as sequences of pieces: "/auth/me" is
\* <<"/", "auth", "/", "me">>, "/docsx" is <<"/", "docs", "x">>, and
\* "Bearer good" is <<"Bearer ", "good">>. A piece is never split further, so
\* two strings are equal exactly when their sequences are.

\* str.startswith
startswith(s, prefix) ==
    Len(s) >= Len(prefix) /\ SubSeq(s, 1, Len(prefix)) = prefix

\* the first index at which old occurs in s, 0 when it does not
find(s, old) ==
    LET at == {i \in 1..(Len(s) - Len(old) + 1) : SubSeq(s, i, i + Len(old) - 1) = old}
    IN  IF at = {} THEN 0 ELSE CHOOSE i \in at : \A j \in at : i <= j

\* s.replace(old, "", 1): the first occurrence of old is cut out
replace_first(s, old) ==
    LET i == find(s, old)
    IN  IF i = 0 THEN s
        ELSE SubSeq(s, 1, i - 1) \o SubSeq(s, i + Len(old), Len(s))

\* auth_header.split("Bearer ")[1] of a header that starts with "Bearer ": what
\* stands between the first "Bearer " and the next one, or the end
split_Bearer_1(auth_header) ==
    LET rest == Tail(auth_header)
        i == find(rest, <<"Bearer ">>)
    IN  IF i = 0 THEN rest ELSE SubSeq(rest, 1, i - 1)

SERVICE_URLS ==
    [service \in {"auth", "quest", "chat", "notification"} |->
        IF service = "auth" THEN "http://localhost:8001"
        ELSE IF service = "quest" THEN "http://localhost:8002"
        ELSE IF service = "chat" THEN "http://localhost:8003"
        ELSE "http://localhost:8004"]

PUBLIC_ENDPOINTS ==
    { <<"/">>, <<"/", "docs">>, <<"/", "redoc">>, <<"/", "openapi.json">>,
      <<"/", "health">>, <<"/", "services", "/", "health">>,
      <<"/", "auth", "/", "register">>, <<"/", "auth", "/", "login">>,
      <<"/", "auth", "/", "health">>, <<"/", "quest", "/", "health">>,
      <<"/", "chat", "/", "health">>, <<"/", "notification", "/", "health">> }

\* verify_token: the payload of a token with a good signature, audience, issuer
\* and an exp in the future; None for every other string. TRUE: a payload.
verify_token(token) == token = <<"good">>

\* what the gateway did with a request. did: "forward" (an HTTP request went to
\* a backend service), "local" (a route of the gateway answered), "reject" (the
\* middleware answered). status 0: the status is the backend's answer.
Outcome(did, status, service, service_path) ==
    [did |-> did, status |-> status, service |-> service,
     service_path |-> service_path]

JSONResponse(status_code) == Outcome("reject", status_code, "none", <<>>)

\* forward_request: the request goes to service_url + path
forward_request(service, path) == Outcome("forward", 0, service, path)

\* the routes of the gateway itself
LocalRoutes ==
    { <<"/">>, <<"/", "health">>, <<"/", "services", "/", "health">>,
      <<"/", "docs">>, <<"/", "docs", "/", "oauth2-redirect">>,
      <<"/", "redoc">>, <<"/", "openapi.json">> }

\* call_next: the router. The POST routes /auth/register and /auth/login call
\* the auth service themselves (handle_register, handle_login); the POST routes
\* /quest/tasks and /chat/messages answer with a note; the proxy routes
\* /<service>/{path:path} forward; the rest is served by the gateway or is 404.
call_next(method, path) ==
    IF method = "POST" /\ path = <<"/", "auth", "/", "register">>
    THEN Outcome("forward", 0, "auth", <<"/", "register">>)
    ELSE IF method = "POST" /\ path = <<"/", "auth", "/", "login">>
    THEN Outcome("forward", 0, "auth", <<"/", "login">>)
    ELSE IF method = "POST" /\ path \in { <<"/", "quest", "/", "tasks">>,
                                         <<"/", "chat", "/", "messages">> }
    THEN Outcome("local", 200, "none", <<>>)
    ELSE IF \E service \in DOMAIN SERVICE_URLS : startswith(path, <<"/", service, "/">>)
    THEN LET service == CHOOSE x \in DOMAIN SERVICE_URLS :
                            startswith(path, <<"/", x, "/">>)
         IN  forward_request(service, <<"/">> \o SubSeq(path, 4, Len(path)))
    ELSE IF path \in LocalRoutes
    THEN Outcome("local", IF method = "GET" THEN 200 ELSE 405, "none", <<>>)
    ELSE Outcome("local", 404, "none", <<>>)

\* a middleware that takes every Bearer header without verifying the token
check_credential_NoVerify(auth_header) ==
    IF auth_header = <<>> \/ ~startswith(auth_header, <<"Bearer ">>)
    THEN "missing"
    ELSE "ok"

\* gateway_middleware, the Authorization header: absent or empty or not
\* starting with "Bearer " is 401; the token is what follows "Bearer "
check_credential(auth_header) ==
    IF auth_header = <<>> \/ ~startswith(auth_header, <<"Bearer ">>)
    THEN "missing"
    ELSE IF ~verify_token(split_Bearer_1(auth_header))
    THEN "invalid"
    ELSE "ok"

\* gateway_middleware: the service a path belongs to, "none" without one
service_of(path) ==
    IF startswith(path, <<"/", "auth", "/">>) THEN "auth"
    ELSE IF startswith(path, <<"/", "quest", "/">>) THEN "quest"
    ELSE IF startswith(path, <<"/", "chat", "/">>) THEN "chat"
    ELSE IF startswith(path, <<"/", "notification", "/">>) THEN "notification"
    ELSE "none"

\* gateway_middleware: what the gateway does with one request
dispatch(method, path, auth_header) ==
    IF \/ path \in PUBLIC_ENDPOINTS
       \/ startswith(path, <<"/", "docs">>)
       \/ startswith(path, <<"/", "redoc">>)
    THEN call_next(method, path)
    ELSE LET service == service_of(path)
             service_path == replace_first(path, <<"/", service>>)
         IN  IF service = "none" THEN JSONResponse(404)
             ELSE IF check_credential(auth_header) # "ok" THEN JSONResponse(401)
             ELSE IF service \notin DOMAIN SERVICE_URLS THEN JSONResponse(502)
             ELSE forward_request(service, service_path)

gateway_middleware(method, path, auth_header) ==
    /\ gateway' = [method |-> method, path |-> path, auth_header |-> auth_header]
                      @@ dispatch(method, path, auth_header)
    /\ UNCHANGED <<quest_vars, chat_vars, rabbitmq, notifications>>

\* the requests sent to the gateway
Methods == {"GET", "POST"}

GatewayPaths ==
    PUBLIC_ENDPOINTS \cup
    { <<"/", "docs", "/", "oauth2-redirect">>, <<"/", "docs", "x">>,
      <<"/", "redoc", "/", "quest", "/", "tasks">>,
      <<"/", "auth">>, <<"/", "auth", "/">>, <<"/", "auth", "/", "me">>,
      <<"/", "auth", "x", "/", "me">>, <<"/", "auth", "/", "health", "/">>,
      <<"/", "quest", "/", "tasks">>,
      <<"/", "quest", "/", "tasks", "/", "1", "/", "take">>,
      <<"/", "quest", "/", "quest", "/", "tasks">>,
      <<"/", "chat", "/", "messages">>,
      <<"/", "notification", "/", "notifications">>,
      <<"/", "admin">>, <<"/", "health", "z">>, <<"/", "tasks">>,
      <<"/", "Quest", "/", "tasks">> }

\* no header, an empty one, other schemes, and Bearer with a token that
\* verify_token accepts ("good") or refuses
AuthHeaders ==
    { <<>>, <<"Basic ", "good">>, <<"bearer ", "good">>, <<"good">>,
      <<"Bearer ">>, <<"Bearer ", "good">>, <<"Bearer ", "bad">>,
      <<"Bearer ", "expired">>, <<"Bearer ", "Bearer ", "good">>,
      <<" ", "Bearer ", "good">> }

GatewayNext ==
    \E method \in Methods, path \in GatewayPaths, auth_header \in AuthHeaders :
        gateway_middleware(method, path, auth_header)

GatewaySpec == Init /\ [][GatewayNext]_vars

\* ConnectionManager called on its own, with any websocket and any task id. A
\* websocket belongs to the task of its path; ws keeps what was last done with
\* it: "receiving" with acked once connect has returned for it, "ended" once
\* disconnect has been called for it.
register(task_id, w) ==
    /\ ws[w].pc \in {"free", "receiving"}
    /\ ws[w].pc = "receiving" => ws[w].task_id = task_id
    /\ Len(Connections(active_connections, task_id)) < MaxSockets
    /\ active_connections' = connect(active_connections, task_id, w)
    /\ ws' = [ws EXCEPT ![w] = [FreeSocket EXCEPT !.pc = "receiving", !.open = TRUE,
                                                  !.task_id = task_id, !.acked = TRUE]]
    /\ UNCHANGED <<chat_messages, http, quest_vars, outer_vars>>

unregister(task_id, w) ==
    /\ ws[w].pc = "free" \/ ws[w].task_id = task_id
    /\ active_connections' = disconnect(active_connections, task_id, w)
    /\ ws' = [ws EXCEPT ![w].pc = "ended", ![w].open = FALSE, ![w].task_id = task_id]
    /\ UNCHANGED <<chat_messages, http, quest_vars, outer_vars>>

RegistryNext ==
    \/ \E t \in ChatTaskIds, w \in Sockets : register(t, w)
    \/ \E t \in ChatTaskIds, w \in Sockets : unregister(t, w)

RegistrySpec == ChatInit /\ [][RegistryNext]_vars

\* ------------------------------------------------------------------ claims

\* the step in which the handler of request r, waiting behind get_current_user
\* with operation op, runs its checks
Handles(r, op) == req[r].pc = "authed" /\ req[r].op = op /\ req'[r] # req[r]

\* request r is answered in this step, with result
Answers(r, result) == InFlight(r) /\ req'[r].pc = "idle" /\ req'[r].result = result

\* C1: of the completeTask requests on one task exactly one is answered with
\* success (a concurrent second one must see InvalidState), and the price is
\* taken from the creator and given to the executor exactly once.
C1_ExactlyOneCompletion ==
    \A t \in DOMAIN tasks :
        /\ history[t].completions <= 1
        /\ history[t].completions = 1 =>
               /\ history[t].debited = tasks[t].price
               /\ history[t].credited = tasks[t].price

\* C2: of the claimTask requests on one Open task at most one is answered with
\* success, and whoever was answered with success is the task's executor.
C2_AtMostOneClaim ==
    \A t \in DOMAIN tasks :
        \A u \in history[t].takers : tasks[t].executor_id = u

\* C3: in every committed state a Completed task has an executor, set by an
\* earlier claim, and its completion took exactly the price from the creator and
\* gave exactly the price to the executor; a task still InProgress has moved
\* no money.
C3_CompletedIffPaid ==
    \A t \in DOMAIN tasks :
        /\ tasks[t].status = COMPLETED =>
               /\ tasks[t].executor_id # NoUser
               /\ tasks[t].executor_id \in history[t].takers
               /\ history[t].debited = tasks[t].price
               /\ history[t].credited = tasks[t].price
        /\ tasks[t].status = IN_PROGRESS =>
               /\ history[t].debited = 0
               /\ history[t].credited = 0

\* C4: no account balance is ever negative, whatever the interleaving of the
\* requests.
C4_BalanceNonNegative == \A u \in Users : users[u].balance >= 0

\* two tasks of one creator were completed by requests that overlapped (the
\* second commit did not see the first one's debit)
C4_Witness ==
    \E t1, t2 \in DOMAIN tasks :
        /\ t1 # t2
        /\ tasks[t1].creator_id = tasks[t2].creator_id
        /\ tasks[t1].status = COMPLETED /\ tasks[t2].status = COMPLETED
        /\ history[t1].debited = tasks[t1].price
        /\ history[t2].debited # tasks[t2].price

\* C5: claimTask never succeeds for the task's creator, so an executor is never
\* the creator; a rejected self-claim leaves the tasks as they were.
C5_NoSelfClaim ==
    /\ [](\A t \in DOMAIN tasks :
            /\ tasks[t].creator_id \notin history[t].takers
            /\ tasks[t].executor_id # NoUser => tasks[t].executor_id # tasks[t].creator_id)
    /\ [][\A r \in Reqs : Answers(r, "own_task") => tasks' = tasks]_vars

\* a self-claim was rejected while another task has been claimed
C5_Witness ==
    /\ \E r \in Reqs : req[r].result = "own_task"
    /\ \E t \in DOMAIN tasks : tasks[t].executor_id # NoUser

\* C6: every task, created or seeded, has an executor if and only if its status
\* is InProgress or Completed.
C6_ExecutorIffClaimed ==
    \A t \in DOMAIN tasks :
        tasks[t].executor_id # NoUser <=> tasks[t].status \in {IN_PROGRESS, COMPLETED}

\* C7: a task's status only ever changes from Open to InProgress and from
\* InProgress to Completed.
C7_OnlyForwardTransitions ==
    [][\A t \in DOMAIN tasks :
          tasks'[t].status # tasks[t].status =>
              \/ tasks[t].status = OPEN /\ tasks'[t].status = IN_PROGRESS
              \/ tasks[t].status = IN_PROGRESS /\ tasks'[t].status = COMPLETED]_vars

\* C8: when the handler of the creator's completeTask runs on an InProgress task
\* while the creator's balance in the store is below the price, the request is
\* answered InsufficientFunds and nothing in the store changes.
C8_InsufficientFundsRejected ==
    [][\A r \in Reqs :
          (/\ Handles(r, "complete")
           /\ req[r].task_id \in DOMAIN tasks
           /\ tasks[req[r].task_id].creator_id = req[r].user
           /\ tasks[req[r].task_id].status = IN_PROGRESS
           /\ tasks[req[r].task_id].executor_id # NoUser
           /\ users[req[r].user].balance < tasks[req[r].task_id].price)
          => /\ Answers(r, "no_funds")
             /\ UNCHANGED <<users, tasks>>]_vars

\* C9: requests one after the other: a completeTask of the creator on a task
\* that is already Completed is answered InvalidState and changes nothing in
\* the store, and no task's price is transferred more than once.
C9_NoSecondCompletion ==
    /\ [](\A t \in DOMAIN tasks :
            /\ history[t].completions <= 1
            /\ history[t].debited \in {0, tasks[t].price}
            /\ history[t].credited = history[t].debited)
    /\ [][\A r \in Reqs :
            (/\ Handles(r, "complete")
             /\ req[r].task_id \in DOMAIN tasks
             /\ tasks[req[r].task_id].creator_id = req[r].user
             /\ tasks[req[r].task_id].status = COMPLETED)
            => /\ Answers(r, "not_in_progress")
               /\ UNCHANGED <<users, tasks>>]_vars

\* the only task has been completed and paid, and the request after that was a
\* completeTask of its creator, answered InvalidState
C9_Witness ==
    /\ Len(tasks) = 1
    /\ tasks[1].status = COMPLETED
    /\ history[1].debited = tasks[1].price
    /\ req[1].result = "not_in_progress"

\* C10: a completeTask of anyone but the task's creator, the executor included,
\* is answered Forbidden and changes nothing in the store.
C10_OnlyCreatorCompletes ==
    [][\A r \in Reqs :
          (/\ Handles(r, "complete")
           /\ req[r].task_id \in DOMAIN tasks
           /\ tasks[req[r].task_id].creator_id # req[r].user)
          => /\ Answers(r, "not_creator")
             /\ UNCHANGED <<users, tasks>>]_vars

\* a completeTask was answered Forbidden while a task is InProgress with its
\* executor set
C10_Witness ==
    /\ \E r \in Reqs : req[r].result = "not_creator"
    /\ \E t \in DOMAIN tasks :
          tasks[t].status = IN_PROGRESS /\ tasks[t].executor_id # NoUser

Completes(r) ==
    req[r].pc = "dirty" /\ req[r].op = "complete" /\ Answers(r, "completed")

\* C13 as stated: requests one after the other; B, made by registration and
\* still at balance 0, has claimed a task of A; A's completeTask leaves A's
\* balance lower by the price, B's balance at the price, the task Completed and
\* B's reputation higher by 0.1 than before.
C13_ScenarioAsStated ==
    [][\A r \in Reqs :
          LET t == req[r].task_id
              A == req[r].user
              B == RegisteredId
          IN (Completes(r) /\ tasks[t].executor_id = B /\ users[B].balance = 0)
             => /\ users'[A].balance = users[A].balance - tasks[t].price
                /\ users'[B].balance = tasks[t].price
                /\ tasks'[t].status = COMPLETED
                /\ users'[B].rating = users[B].rating + RatingStep]_vars

\* C13 amended: the same, but B's reputation becomes min(5.0, previous + 0.1),
\* which leaves it at the 5.0 that registration gave it.
C13_ScenarioCapped ==
    [][\A r \in Reqs :
          LET t == req[r].task_id
              A == req[r].user
              B == RegisteredId
          IN (Completes(r) /\ tasks[t].executor_id = B /\ users[B].balance = 0)
             => /\ users'[A].balance = users[A].balance - tasks[t].price
                /\ users'[B].balance = tasks[t].price
                /\ tasks'[t].status = COMPLETED
                /\ users'[B].rating = Min(MaxRating, users[B].rating + RatingStep)
                /\ users'[B].rating = users[B].rating]_vars

\* the registered account has claimed a task of test_user, who has completed it
C13_Witness ==
    \E t \in DOMAIN tasks :
        /\ tasks[t].status = COMPLETED
        /\ tasks[t].creator_id = TestUserId
        /\ tasks[t].executor_id = RegisteredId
        /\ users[RegisteredId].balance = tasks[t].price
        /\ users[TestUserId].balance = 5000 - tasks[t].price
        /\ users[RegisteredId].rating = MaxRating

\* C14: a successful completeTask sets the executor's reputation to
\* min(5.0, previous + 0.1) and no other account's; no reputation ever
\* exceeds 5.0.
C14_RatingCapped ==
    /\ [](\A u \in Users : users[u].rating <= MaxRating)
    /\ [][\A r \in Reqs :
            Completes(r) =>
                \A u \in Users :
                    users'[u].rating =
                        IF u = req[r].t_executor_id
                        THEN Min(MaxRating, users[u].rating + RatingStep)
                        ELSE users[u].rating]_vars

\* a task has been completed once, and its executor's reputation is 5.0
C14_Witness ==
    \E t \in DOMAIN tasks :
        /\ history[t].completions = 1
        /\ tasks[t].executor_id # NoUser
        /\ users[tasks[t].executor_id].rating = MaxRating

\* websocket w is in a list of the registry
Registered(w) ==
    \E t \in DOMAIN active_connections : InList(active_connections[t], w)

\* how often message msg is in an inbox
Count(inbox, msg) == Cardinality({i \in 1..Len(inbox) : inbox[i] = msg})

\* the handler of websocket w ends a broadcast in this step
BroadcastEnds(w) == ws[w].pc = "sending" /\ ws'[w].pc = "receiving"

\* C15: a websocket is in the registry only under the task it named and only if
\* its token resolved to the creator or the executor of that task; a connection
\* whose token is missing or invalid, whose task does not exist or whose account
\* is neither creator nor executor is closed with the policy-violation code and
\* is in the registry in no state: nothing was ever sent to it.
C15_OnlyParticipantsRegistered ==
    /\ \A t \in DOMAIN active_connections :
          \A i \in 1..Len(active_connections[t]) :
              LET w == active_connections[t][i]
              IN /\ ws[w].task_id = t
                 /\ t \in DOMAIN tasks
                 /\ ws[w].user # NoUser
                 /\ ws[w].user \in {tasks[t].creator_id, tasks[t].executor_id}
    /\ \A w \in Sockets :
          (/\ ws[w].pc # "free"
           /\ \/ ws[w].user = NoUser
              \/ ws[w].task_id \notin DOMAIN tasks
              \/ ws[w].user \notin {tasks[ws[w].task_id].creator_id,
                                    tasks[ws[w].task_id].executor_id})
          => /\ ws[w].pc = "closed"
             /\ ws[w].close_code = WS_1008_POLICY_VIOLATION
             /\ ~Registered(w)
             /\ ~ws[w].acked
             /\ ws[w].inbox = <<>>

\* the registered account asked for task 1, of which it is neither creator nor
\* executor, and was closed with 1008, while a participant is registered
C15_Witness ==
    /\ \E w \in Sockets :
          /\ ws[w].pc = "closed"
          /\ ws[w].user = RegisteredId
          /\ ws[w].task_id = 1
    /\ \E w \in Sockets : Registered(w) /\ ws[w].task_id = 1

\* C16: no account whose is_active is false is admitted to a conversation
\* session, and no message of such an account is stored.
C16_InactiveNeverAdmitted ==
    /\ \A w \in Sockets :
          (Registered(w) \/ ws[w].acked) => users[ws[w].user].is_active
    /\ \A m \in DOMAIN chat_messages : users[chat_messages[m].sender_id].is_active

\* C17: once the handler of a websocket has ended, for whatever reason, the
\* websocket is not in the registry.
C17_EndedNotRegistered ==
    \A w \in Sockets : ws[w].pc \in {"ended", "closed"} => ~Registered(w)

\* C18: message ids are given in commit order; a session that is registered
\* receives the messages of its task in that order.
C18_CommitOrderDelivery ==
    \A c \in Sockets :
        Registered(c) =>
            \A i, j \in 1..Len(ws[c].inbox) :
                i < j => ws[c].inbox[i] <= ws[c].inbox[j]

\* C19: when a broadcast ends, every session other than the sender's that has
\* been registered and connected from its beginning has received the message
\* exactly once, whatever was registered or unregistered in between.
C19_BroadcastExclusive ==
    [][\A w \in Sockets :
          BroadcastEnds(w) =>
              \A c \in ws[w].bc_stable : Count(ws'[c].inbox, ws[w].bc_msg) = 1]_vars

\* C20: when a delivery has failed during a broadcast, the broadcast still ends
\* normally (the handler goes on receiving, the websocket stays registered and
\* is not closed), every other session that has been registered and connected
\* from its beginning has received the message, and the message is still stored.
C20_FailureIsolated ==
    [][\A w \in Sockets :
          (BroadcastEnds(w) /\ ws[w].bc_failed # {}) =>
              /\ \A c \in ws[w].bc_stable : Count(ws'[c].inbox, ws[w].bc_msg) >= 1
              /\ ws'[w].close_code = NoCode
              /\ InList(Connections(active_connections', ws[w].task_id), w)
              /\ ws[w].bc_msg \in DOMAIN chat_messages'
              /\ chat_messages'[ws[w].bc_msg] = chat_messages[ws[w].bc_msg]]_vars

\* C21: when the broadcast of a handler returns, no session that a delivery of
\* that broadcast failed for is left in the task's list.
C21_FailedDeliveryUnregisters ==
    [][\A w \in Sockets :
          BroadcastEnds(w) =>
              \A c \in ws[w].bc_failed :
                  ~InList(Connections(active_connections', ws[w].task_id), c)]_vars

\* C22: after any sequence of register and unregister operations no task id
\* maps to an empty list; unregistering the last session of a task removes the
\* task's entry, and unregistering a session that is not registered leaves the
\* registry as it was.
C22_NoEmptyEntry ==
    /\ [](\A t \in DOMAIN active_connections : active_connections[t] # <<>>)
    /\ [][\A t \in ChatTaskIds, w \in Sockets :
             unregister(t, w) =>
                 /\ Connections(active_connections, t) = <<w>> =>
                        t \notin DOMAIN active_connections'
                 /\ ~InList(Connections(active_connections, t), w) =>
                        active_connections' = active_connections]_vars

\* the only session of a task has been unregistered and the entry is gone, while
\* another task keeps its entry; and a session that was never registered has
\* been unregistered
C22_Witness ==
    /\ \E w \in Sockets :
          /\ ws[w].pc = "ended" /\ ws[w].acked
          /\ ws[w].task_id \notin DOMAIN active_connections
    /\ \E w \in Sockets : ws[w].pc = "ended" /\ ~ws[w].acked
    /\ DOMAIN active_connections # {}

C24_SenderIsParticipant ==
    [][Len(chat_messages') > Len(chat_messages) =>
          LET m == chat_messages'[Len(chat_messages')]
          IN m.sender_id \in {tasks[m.task_id].creator_id,
                              tasks[m.task_id].executor_id}]_vars

\* a credential of a user who is the creator or the executor of task t
ParticipantToken(token, t) ==
    /\ token.kind = "valid"
    /\ t \in DOMAIN tasks
    /\ token.sub \in {tasks[t].creator_id, tasks[t].executor_id}

\* C25: a send-message request over HTTP that carries a valid credential of the
\* task's creator or executor stores exactly one message for that task and
\* sender and returns it with its id; for an absent task it answers NotFound,
\* for a user who is no participant Forbidden.
C25_HttpSendSucceeds ==
    [][\A token \in Tokens, t \in ChatTaskIds, m \in Texts :
          (token.kind = "valid" /\ m # <<>> /\ create_message(token, t, m)) =>
              IF t \notin DOMAIN tasks
              THEN http'.status = HTTP_404_NOT_FOUND /\ chat_messages' = chat_messages
              ELSE IF ~ParticipantToken(token, t)
              THEN http'.status = HTTP_403_FORBIDDEN /\ chat_messages' = chat_messages
              ELSE /\ chat_messages' =
                          Append(chat_messages,
                                 [task_id |-> t, sender_id |-> token.sub, message |-> m])
                   /\ http' = Response("create_message", HTTP_201_CREATED,
                                       <<Len(chat_messages')>>)]_vars

\* C29: a history request of a participant returns only messages of that task,
\* oldest first; with offset 0 and limit n on a task that holds more than n
\* messages it returns the n oldest.
C29_ListOldestFirst ==
    [][\A token \in Tokens, t \in ChatTaskIds, skip \in Skips, limit \in Limits :
          (ParticipantToken(token, t) /\ get_task_messages(token, t, skip, limit)) =>
              LET all == TaskMessages(t, Len(chat_messages))
                  body == http'.body
              IN /\ http'.status = HTTP_200_OK
                 /\ \A i \in 1..Len(body) : InList(all, body[i])
                 /\ \A i, j \in 1..Len(body) : i < j => body[i] < body[j]
                 /\ (skip = 0 /\ Len(all) > limit) => body = SubSeq(all, 1, limit)]_vars

\* the handler of websocket w reads frame data in this step
Reads(w, data) == ws'[w].frames = Append(ws[w].frames, data)

\* a JSON object whose message, the empty text if it has none, is whitespace
\* throughout
Blank(data) ==
    /\ data.kind \in {"text", "no_message"}
    /\ \A i \in 1..Len(data.message) : IsSpace(data.message[i])

\* text that is no JSON, JSON that is no object, an object whose message is no text
Malformed(data) == data.kind \in {"not_json", "not_object", "message_not_text"}

\* the step sends nothing to any websocket but, possibly, error payloads to w
QuietBut(w) ==
    /\ \A c \in Sockets : ws'[c].inbox = ws[c].inbox
    /\ \A c \in Sockets \ {w} : ws'[c].errors = ws[c].errors

\* websocket w is left open, registered and waiting for the next frame
StaysOn(w) ==
    /\ ws'[w].open /\ ws'[w].pc = "receiving" /\ ws'[w].close_code = NoCode
    /\ active_connections' = active_connections
    /\ InList(Connections(active_connections, ws[w].task_id), w)

\* C26: a frame whose message is empty after trimming is dropped silently: no
\* message is stored, no payload of any kind is sent to any session, and the
\* session stays registered and goes on receiving.
C26_EmptyDiscarded ==
    [][\A w \in Sockets, data \in Frames :
          (Reads(w, data) /\ Blank(data)) =>
              /\ chat_messages' = chat_messages
              /\ QuietBut(w) /\ ws'[w].errors = ws[w].errors
              /\ StaysOn(w)]_vars

\* a session has read a frame of whitespace and after it a frame with a message,
\* which is stored
C26_Witness ==
    \E w \in Sockets :
        /\ Len(ws[w].frames) = 2
        /\ Blank(ws[w].frames[1]) /\ ws[w].frames[1].message # <<>>
        /\ ws[w].frames[2] = Frame("text", <<" ", "h", " ">>)
        /\ chat_messages = << [task_id |-> ws[w].task_id, sender_id |-> ws[w].user,
                               message |-> <<"h">>] >>

\* C27: every malformed frame has one error payload sent to the session it came
\* from and none to any other, stores nothing, broadcasts nothing, and leaves
\* the session open and registered.
C27_MalformedAnswered ==
    [][\A w \in Sockets, data \in Frames :
          (Reads(w, data) /\ Malformed(data)) =>
              /\ ws'[w].errors = ws[w].errors + 1
              /\ chat_messages' = chat_messages
              /\ QuietBut(w)
              /\ StaysOn(w)]_vars

\* C28: when the broadcast of a message ends, every other session registered
\* for the task (from the beginning of the broadcast to its end) has received
\* the message exactly once, the sending session has not received it, and no
\* session of another task has.
C28_DeliveredToOthersOnce ==
    [][\A w \in Sockets :
          BroadcastEnds(w) =>
              /\ \A c \in ws[w].bc_stable : Count(ws'[c].inbox, ws[w].bc_msg) = 1
              /\ Count(ws'[w].inbox, ws[w].bc_msg) = 0
              /\ \A c \in Sockets :
                    ws[c].task_id # ws[w].task_id =>
                        Count(ws'[c].inbox, ws[w].bc_msg) = 0]_vars

\* the frames read so far that carry a message
MessageFrames ==
    {f \in FramesRead : LET data == ws[f[1]].frames[f[2]]
                        IN data.kind = "text" /\ ~Blank(data)}

\* C30: no deduplication: every frame with a message gets a row of its own,
\* whether or not the table already holds one of the same task, sender and
\* text, and the broadcast of the new row begins.
C30_NoDeduplication ==
    /\ [](Cardinality(MessageFrames) = Len(chat_messages))
    /\ [][\A w \in Sockets, data \in Frames :
             (Reads(w, data) /\ data.kind = "text" /\ ~Blank(data)) =>
                 LET list == Connections(active_connections, ws[w].task_id)
                     j == NextTarget(list, 1, w)
                     id == Len(chat_messages) + 1
                 IN /\ Len(chat_messages') = id
                    /\ SubSeq(chat_messages', 1, id - 1) = chat_messages
                    /\ chat_messages'[id].task_id = ws[w].task_id
                    /\ chat_messages'[id].sender_id = ws[w].user
                    /\ j # 0 =>
                          /\ ws'[w].pc = "sending" /\ ws'[w].bc_msg = id
                          /\ ws[list[j]].open =>
                                ws'[list[j]].inbox = Append(ws[list[j]].inbox, id)]_vars

\* two messages of the same task, sender and text are stored, and another
\* session has received both
C30_Witness ==
    /\ Len(chat_messages) = 2
    /\ chat_messages[1] = chat_messages[2]
    /\ \E c \in Sockets : ws[c].inbox = <<1, 2>>

\* request r commits in this step and goes on to publish_message
Publishes(r) ==
    /\ req'[r] # req[r]
    /\ \/ req[r].pc = "authed" /\ req[r].op = "create" /\ req[r].cu_balance >= req[r].price
       \/ req[r].pc = "dirty"

\* C31: whether or not the event can be published, createTask, claimTask and
\* completeTask answer with success and their committed change is the store's
\* new state; with the broker down the change and the answer are the same and
\* no event is queued.
C31_PublishFailureNonFatal ==
    [][\A r \in Reqs :
          Publishes(r) =>
              LET q == req[r] IN
              /\ q.op = "create" =>
                    /\ Answers(r, "created")
                    /\ tasks' = Append(tasks, Task(q.price, OPEN, q.user, NoUser))
                    /\ users' = users
              /\ q.op = "take" =>
                    /\ Answers(r, "taken")
                    /\ tasks' = TakeWrite(q)
                    /\ users' = users
              /\ q.op = "complete" =>
                    /\ Answers(r, "completed")
                    /\ tasks' = CompleteWriteTasks(q)
                    /\ users' = CompleteWriteUsers(q)
              /\ IF rabbitmq.up
                 THEN /\ Len(rabbitmq'.queue) = Len(rabbitmq.queue) + 1
                      /\ SubSeq(rabbitmq'.queue, 1, Len(rabbitmq.queue)) = rabbitmq.queue
                 ELSE rabbitmq'.queue = rabbitmq.queue]_vars

\* a task was created, taken and completed by three requests, and one of the
\* three events only was published
C31_Witness ==
    /\ Len(tasks) = 1 /\ tasks[1].status = COMPLETED
    /\ \E r \in Reqs : req[r].result = "completed"
    /\ Len(rabbitmq.queue) + Len(notifications) = 1

\* the notification type that belongs to a routing key
TypeOf(routing_key) ==
    CASE routing_key = "task.created" -> "task_created"
      [] routing_key = "task.taken" -> "task_taken"
      [] routing_key = "task.completed" -> "task_completed"

\* C38: every event the task service has published reaches the handler of its
\* kind: the callback appends exactly one notification, of the type that
\* belongs to the event's routing key, for the event's task.
C38_CallbackRoutesByKind ==
    [][Len(rabbitmq'.queue) < Len(rabbitmq.queue) =>
          LET event == Head(rabbitmq.queue)
              n == Len(notifications)
          IN /\ Len(notifications') = n + 1
             /\ SubSeq(notifications', 1, n) = notifications
             /\ notifications'[n + 1].type = TypeOf(event.routing_key)
             /\ notifications'[n + 1].task_id = event.message.task_id]_vars

\* C32: requests one after the other: a claimTask on a task that is not Open is
\* answered InvalidState and changes nothing in the store, and a task's
\* executor, once set, is never replaced or cleared.
C32_ClaimedStaysClaimed ==
    /\ [][\A r \in Reqs :
            (/\ Handles(r, "take")
             /\ req[r].task_id \in DOMAIN tasks
             /\ tasks[req[r].task_id].status # OPEN)
            => /\ Answers(r, "not_open")
               /\ UNCHANGED <<users, tasks>>]_vars
    /\ [][\A t \in DOMAIN tasks :
            tasks[t].executor_id # NoUser =>
                tasks'[t].executor_id = tasks[t].executor_id]_vars

\* the only task has an executor, and the request after the claim was another
\* claimTask, answered InvalidState
C32_Witness ==
    /\ Len(tasks) = 1
    /\ tasks[1].executor_id # NoUser
    /\ history[1].takers = {tasks[1].executor_id}
    /\ req[1].result = "not_open"

\* C33: the users table changes only in the step in which a completeTask is
\* answered with success: createTask, claimTask and every rejected request leave
\* every balance and rating as they were; and no step changes the price or the
\* creator of a stored task.
C33_OnlyCompletionMovesMoney ==
    /\ [][users' # users => \E r \in Reqs : Completes(r)]_vars
    /\ [][\A r \in Reqs :
            (InFlight(r) /\ req'[r] # req[r] /\ ~Completes(r)) => users' = users]_vars
    /\ [][\A t \in DOMAIN tasks :
            /\ tasks'[t].price = tasks[t].price
            /\ tasks'[t].creator_id = tasks[t].creator_id]_vars

\* a task was created and claimed by requests and completed, and a rejected
\* request was answered after that
C33_Witness ==
    /\ \E t \in DOMAIN tasks :
          history[t].completions = 1 /\ history[t].takers # {}
    /\ \E r \in Reqs : req[r].result \in {"not_open", "own_task", "not_creator",
                                          "not_in_progress", "low_balance"}
    /\ \E r \in Reqs : req[r].result = "created"

\* C34: the sum of all account balances is the same in every reachable state,
\* whatever the interleaving of the completion requests.
C34_MoneyConserved ==
    [][LET total(table) == table[AdminId].balance + table[TestUserId].balance
                               + table[RegisteredId].balance
       IN  total(users') = total(users)]_vars

\* C37: no stored task ever has status Cancelled: the sample tasks and the
\* created ones are not cancelled and neither take_task nor complete_task writes
\* that status.
C37_NeverCancelled == \A t \in DOMAIN tasks : tasks[t].status # CANCELLED

\* every status the handlers write is there: a task completed, one in progress
\* after a claim, and one created by a request and still open
C37_Witness ==
    /\ \E t \in DOMAIN tasks :
          tasks[t].status = COMPLETED /\ history[t].completions = 1
    /\ \E t \in DOMAIN tasks :
          tasks[t].status = IN_PROGRESS /\ history[t].takers # {}
    /\ \E t \in DOMAIN tasks : tasks[t].status = OPEN

\* C36: the step that admits a websocket sends the connection payload to that
\* websocket and changes nothing of any other websocket, of its task or of
\* another; and a websocket gets the connection payload only in its own
\* admission.
C36_AckToNewSessionOnly ==
    /\ [][\A w \in Sockets :
            (ws[w].pc = "accepting" /\ ws'[w].pc = "receiving")
            => /\ ~ws[w].acked /\ ws'[w].acked
               /\ InList(Connections(active_connections', ws[w].task_id), w)
               /\ \A c \in Sockets \ {w} : ws'[c] = ws[c]]_vars
    /\ [][\A c \in Sockets :
            (ws'[c].acked /\ ~ws[c].acked) => ws[c].pc = "accepting"]_vars

\* two websockets admitted to one task and one to another, the earlier ones
\* having received nothing but their own connection payload
C36_Witness ==
    \E a, b, c \in Sockets :
        /\ a # b /\ ws[a].task_id = ws[b].task_id /\ ws[c].task_id # ws[a].task_id
        /\ \A x \in {a, b, c} :
              /\ ws[x].pc = "receiving" /\ ws[x].acked /\ ws[x].inbox = <<>>
              /\ InList(Connections(active_connections, ws[x].task_id), x)

\* C39: a request the middleware forwards to a backend service either has a
\* public path or carries an Authorization header "Bearer <token>" whose token
\* verify_token accepts; and a request whose path is not public and lies under
\* none of /auth/, /quest/, /chat/, /notification/ is answered 404 by the
\* middleware and reaches no backend service.
C39_ForwardOnlyWithCredential ==
    LET public == \/ gateway.path \in PUBLIC_ENDPOINTS
                  \/ startswith(gateway.path, <<"/", "docs">>)
                  \/ startswith(gateway.path, <<"/", "redoc">>)
        prefixed == \E service \in {"auth", "quest", "chat", "notification"} :
                        /\ Len(gateway.path) >= 3
                        /\ gateway.path[1] = "/" /\ gateway.path[2] = service
                        /\ gateway.path[3] = "/"
    IN  gateway.did # "none" =>
        /\ (gateway.did = "forward" /\ ~public)
               => gateway.auth_header = <<"Bearer ", "good">>
        /\ (~public /\ ~prefixed)
               => gateway.did = "reject" /\ gateway.status = 404

\* a request for a path that is not public was forwarded to the task service
C39_Witness ==
    /\ gateway.did = "forward" /\ gateway.service = "quest"
    /\ gateway.path = <<"/", "quest", "/", "tasks", "/", "1", "/", "take">>
    /\ gateway.service_path = <<"/", "tasks", "/", "1", "/", "take">>

====
